---------------------------- MODULE Spec2Model ----------------------------
(***************************************************************************)
(* A model of the single-tape Turing machine simulator with a memory       *)
(* cache register (src/turing_machine.py).                                 *)
(*                                                                         *)
(* Python values are represented as follows.                               *)
(*   - a str is a TLA+ string; '' is "".                                   *)
(*   - None is the reserved string None, which is no state name, no        *)
(*     symbol and no cache value of any configuration drawn below.         *)
(*   - a dict is a record (a function on its keys); a key that is absent   *)
(*     from the dict is absent from the record's DOMAIN.                   *)
(*   - a list is a sequence; Python index i is TLA+ index i + 1.           *)
(*   - an input string is the sequence of its one-character strings.      *)
(*   - the rendered instantaneous descriptions are real strings, built by  *)
(*     concatenation as the code builds them.                              *)
(***************************************************************************)
EXTENDS Integers, Sequences, FiniteSets, TLC

(***************************************************************************)
(* Bounds of the model.                                                    *)
(***************************************************************************)
\* The step limit of simulate (max_steps, turing_machine.py line 136).  The
\* program's value is 10000; the model runs the same loop under a small
\* limit so that bound-limited runs are explored exhaustively.
max_steps == 3

\* Longest input string simulated.
MaxLen == 2

\* Largest number of entries of config['delta'].
MaxDelta == 2

(***************************************************************************)
(* The state.                                                              *)
(***************************************************************************)
VARIABLES
    config,                \* the parsed configuration handed to __init__
    tm,                    \* the TuringMachine object
    pc,                    \* "new", "config_error", or a run's position
    input_string,          \* simulate's argument
    tape, tape_position, current_state, mem_cache,
    instant_descriptions, step, transition,      \* simulate's locals
    returned,              \* the value simulate returned last
    applied, halt,         \* history of the current run
    earlier_other,         \* history: an earlier simulate call returned for another input
    query, found,          \* find_transition's arguments and its result
    file,                  \* what the path given to main holds
    main_pc,               \* main's position, "library" when a client drives the class
    sim_index,             \* main's loop index i over tm.simulation_strings
    stdout,                \* the lines main has printed
    exit_status,           \* <<>> while the process runs, then <<status>>
    uncaught               \* the exception that left main uncaught, or ""

vars == << config, tm, pc, input_string, tape, tape_position, current_state,
           mem_cache, instant_descriptions, step, transition, returned,
           applied, halt, earlier_other, query, found,
           file, main_pc, sim_index, stdout, exit_status, uncaught >>

mainVars == << file, main_pc, sim_index, stdout, exit_status, uncaught >>

runVars == << pc, tape, tape_position, current_state, mem_cache,
              instant_descriptions, step, transition, returned, applied, halt >>

(***************************************************************************)
(* Python values.                                                          *)
(***************************************************************************)
None == "None"

\* The value find_transition returns when nothing matches, and the value of
\* simulate's local `transition` before its first assignment.
NoTransition == [none |-> TRUE]

\* dict.get(key): the value, or None when the key is absent.
Get(d, key) == IF key \in DOMAIN d THEN d[key] ELSE None

(***************************************************************************)
(* The configurations the model draws from.                                *)
(***************************************************************************)
States == {"q0", "q1"}

\* A rule is <<from, cache_in, tape_in, to, cache_out, tape_out, move>>,
\* with None for a blank operand.
BaseRules ==
    { <<"q0", None, "a",  "q1", None, "a",  "R">>,
      <<"q0", None, "a",  "q0", None, "a",  "S">>,
      <<"q0", None, "a",  "q0", None, "b",  "R">>,
      <<"q0", None, None, "q1", None, None, "S">>,
      <<"q0", None, None, "q0", None, None, "L">>,
      <<"q0", None, "a",  "q0", "x",  None, "L">>,
      <<"q0", "x",  None, "q1", None, "a",  "R">>,
      <<"q1", None, None, "q0", "x",  "b",  "L">>,
      <<"q0", None, "b",  "q1", "x",  "a",  "X">>,
      <<"q1", "x",  "a",  "q1", None, None, "R">> }

\* The two encodings of blank a YAML file can hold: null and ''.
BlankEncodings == {None, ""}

Enc(v, e) == IF v = None THEN e ELSE v

\* The delta entry of rule r with its blank operands encoded as e.
DeltaItem(r, e) ==
    [ params |-> [ initial_state   |-> r[1],
                   mem_cache_value |-> Enc(r[2], e),
                   tape_input      |-> Enc(r[3], e) ],
      output |-> [ final_state       |-> r[4],
                   mem_cache_value   |-> Enc(r[5], e),
                   tape_output       |-> Enc(r[6], e),
                   tape_displacement |-> r[7] ] ]

\* Delta entries that lack one of the keys __init__ reads by subscript.
MalformedItems ==
    { [ params |-> [ mem_cache_value |-> None, tape_input |-> "a" ],
        output |-> [ final_state |-> "q1", mem_cache_value |-> None,
                     tape_output |-> "a", tape_displacement |-> "R" ] ],
      [ params |-> [ initial_state |-> "q0", mem_cache_value |-> None ],
        output |-> [ final_state |-> "q1", mem_cache_value |-> None,
                     tape_output |-> "a", tape_displacement |-> "R" ] ],
      [ params |-> [ initial_state |-> "q0", mem_cache_value |-> None,
                     tape_input |-> "a" ],
        output |-> [ mem_cache_value |-> None,
                     tape_output |-> "a", tape_displacement |-> "R" ] ],
      [ params |-> [ initial_state |-> "q0", mem_cache_value |-> None,
                     tape_input |-> "a" ],
        output |-> [ final_state |-> "q1", mem_cache_value |-> None,
                     tape_output |-> "a" ] ] }

\* The delta entries a configuration that encodes blank as e is drawn from.
DeltaItems(e) == { DeltaItem(r, e) : r \in BaseRules } \cup MalformedItems

RECURSIVE SeqsUpTo(_, _)
SeqsUpTo(S, n) ==
    IF n = 0 THEN { <<>> }
    ELSE LET shorter == SeqsUpTo(S, n - 1)
         IN  shorter \cup { Append(s, x) : s \in shorter, x \in S }

MakeConfig(delta, final) ==
    [ q_states      |-> [ q_list |-> <<"q0", "q1">>,
                          initial |-> "q0",
                          final   |-> final ],
      alphabet      |-> <<"a", "b">>,
      tape_alphabet |-> <<"a", "b">>,
      delta         |-> delta ]

Configs ==
    UNION { { MakeConfig(delta, final) :
                delta \in SeqsUpTo(DeltaItems(e), MaxDelta),
                final \in States } :
            e \in BlankEncodings }

InputSymbols == {"a", "b"}

Inputs == SeqsUpTo(InputSymbols, MaxLen)

(***************************************************************************)
(* TuringMachine.__init__                                                  *)
(***************************************************************************)
\* NormBlank that leaves the empty string as it is.
NormBlank_KeepsEmpty(v) == IF v = None THEN None ELSE v

\* Lines 49-50, 54-55, 58-59, 62-63: None and '' both become None.
NormBlank(v) == IF v = None \/ v = "" THEN None ELSE v

\* The subscripted reads of lines 44-45, 52, 66, 69, 72 raise KeyError when
\* the key is absent.
HasRequiredKeys(delta_item) ==
    /\ "params" \in DOMAIN delta_item
    /\ "output" \in DOMAIN delta_item
    /\ "tape_input" \in DOMAIN delta_item.params
    /\ "initial_state" \in DOMAIN delta_item.params
    /\ "final_state" \in DOMAIN delta_item.output
    /\ "tape_displacement" \in DOMAIN delta_item.output

\* Lines 44-73: the Transition built from one delta entry.
MakeTransition(delta_item) ==
    LET params == delta_item.params
        output == delta_item.output
    IN  [ initial_state       |-> params.initial_state,
          mem_cache_value     |-> NormBlank(Get(params, "mem_cache_value")),
          tape_input          |-> NormBlank(params.tape_input),
          final_state         |-> output.final_state,
          new_mem_cache_value |-> NormBlank(Get(output, "mem_cache_value")),
          tape_output         |-> NormBlank(Get(output, "tape_output")),
          tape_displacement   |-> output.tape_displacement ]

\* The object left when __init__ raises: there is none.
NoMachine == [error |-> "KeyError"]

\* TuringMachine that skips the delta entries it cannot read.
TuringMachine_SkipsMalformed(cfg) ==
    LET readable == SelectSeq(cfg.delta, HasRequiredKeys)
    IN  [ states             |-> cfg.q_states.q_list,
          initial_state      |-> cfg.q_states.initial,
          final_state        |-> cfg.q_states.final,
          alphabet           |-> cfg.alphabet,
          tape_alphabet      |-> cfg.tape_alphabet,
          transitions        |-> [ i \in 1..Len(readable) |->
                                     MakeTransition(readable[i]) ],
          simulation_strings |-> IF "simulation_strings" \in DOMAIN cfg
                                 THEN cfg.simulation_strings ELSE <<>> ]

\* Lines 25-77.
TuringMachine(cfg) ==
    IF \A i \in 1..Len(cfg.delta) : HasRequiredKeys(cfg.delta[i])
    THEN [ states             |-> cfg.q_states.q_list,
           initial_state      |-> cfg.q_states.initial,
           final_state        |-> cfg.q_states.final,
           alphabet           |-> cfg.alphabet,
           tape_alphabet      |-> cfg.tape_alphabet,
           transitions        |-> [ i \in 1..Len(cfg.delta) |->
                                      MakeTransition(cfg.delta[i]) ],
           simulation_strings |-> IF "simulation_strings" \in DOMAIN cfg
                                  THEN cfg.simulation_strings ELSE <<>> ]
    ELSE NoMachine

(***************************************************************************)
(* TuringMachine.find_transition                                           *)
(***************************************************************************)
\* Matches without the comparison of the tape symbol.
Matches_IgnoresSymbol(t, state, cache, tape_input) ==
    /\ t.initial_state = state
    /\ t.mem_cache_value = cache

\* Lines 97-108: the test one table entry passes to be returned.
Matches(t, state, cache, tape_input) ==
    /\ t.initial_state = state
    /\ t.mem_cache_value = cache
    /\ LET transition_input ==
               IF t.tape_input = None \/ t.tape_input = ""
               THEN None ELSE t.tape_input
       IN  transition_input = tape_input

\* Lines 95-111: the scan of self.transitions from entry i on.
RECURSIVE ScanTransitions(_, _, _, _, _)
ScanTransitions(transitions, i, state, cache, tape_input) ==
    IF i > Len(transitions) THEN NoTransition
    ELSE IF Matches(transitions[i], state, cache, tape_input)
         THEN transitions[i]
         ELSE ScanTransitions(transitions, i + 1, state, cache, tape_input)

\* Lines 79-111.  Line 93 maps None to None and every other value to itself.
find_transition(self, state, cache, tape_symbol) ==
    LET tape_input == IF tape_symbol # None THEN tape_symbol ELSE None
    IN  ScanTransitions(self.transitions, 1, state, cache, tape_input)

(***************************************************************************)
(* TuringMachine._create_instant_description and _symbol_to_str            *)
(***************************************************************************)
\* symbol_to_str without the special case for blank.
symbol_to_str_KeepsNone(symbol) == symbol

\* Lines 226-238.
symbol_to_str(symbol) == IF symbol = None THEN "B" ELSE symbol

\* "".join(self._symbol_to_str(s) for s in cells)
RECURSIVE JoinSymbols(_)
JoinSymbols(cells) ==
    IF cells = <<>> THEN ""
    ELSE symbol_to_str(Head(cells)) \o JoinSymbols(Tail(cells))

\* create_instant_description with the marker written after the cell under
\* the head.
create_instant_description_MarkerAfter(cells, position, state, cache) ==
    LET state_part == "[" \o state
                      \o (IF cache # None THEN "," \o cache ELSE "")
                      \o "]"
    IN  IF position < 0
        THEN "B" \o state_part \o JoinSymbols(cells)
        ELSE IF position >= Len(cells)
        THEN JoinSymbols(cells) \o "B" \o state_part
        ELSE JoinSymbols(SubSeq(cells, 1, position + 1))
             \o state_part
             \o JoinSymbols(SubSeq(cells, position + 2, Len(cells)))

\* Lines 206-224.  position is the Python index.
create_instant_description(cells, position, state, cache) ==
    LET state_part == "[" \o state
                      \o (IF cache # None THEN "," \o cache ELSE "")
                      \o "]"
    IN  IF position < 0
        THEN state_part \o "B" \o JoinSymbols(cells)
        ELSE IF position >= Len(cells)
        THEN JoinSymbols(cells) \o state_part \o "B"
        ELSE JoinSymbols(SubSeq(cells, 1, position))
             \o state_part
             \o symbol_to_str(cells[position + 1])
             \o JoinSymbols(SubSeq(cells, position + 2, Len(cells)))

(***************************************************************************)
(* TuringMachine.simulate, as steps over the record of its locals.         *)
(*                                                                         *)
(* A run record holds simulate's locals, its position pc ("while": at the  *)
(* loop test of line 139; "read": at line 149, the tape extended;          *)
(* "ready": returned; "raised": left by an exception), the value it        *)
(* returned, and two history fields: applied counts the transitions        *)
(* applied (lines 158-177 executed), halt names the exit taken.            *)
(***************************************************************************)
NoReturn == [none |-> TRUE]

\* SimInit with the cache register kept from the run before.
SimInit_KeepsCache(self, input) ==
    [ pc                   |-> "while",
      tape                 |-> input,
      tape_position        |-> 0,
      current_state        |-> self.initial_state,
      mem_cache            |-> mem_cache,
      instant_descriptions |-> << create_instant_description(
                                    input, 0, self.initial_state, mem_cache) >>,
      step                 |-> 0,
      transition           |-> NoTransition,
      returned             |-> NoReturn,
      applied              |-> 0,
      halt                 |-> "none" ]

\* SimInit without the snapshot of the initial configuration.
SimInit_NoInitialSnapshot(self, input) ==
    [ pc                   |-> "while",
      tape                 |-> input,
      tape_position        |-> 0,
      current_state        |-> self.initial_state,
      mem_cache            |-> None,
      instant_descriptions |-> <<>>,
      step                 |-> 0,
      transition           |-> NoTransition,
      returned             |-> NoReturn,
      applied              |-> 0,
      halt                 |-> "none" ]

\* SimInit with the step counter started at 1.
SimInit_StepFromOne(self, input) ==
    [ pc                   |-> "while",
      tape                 |-> input,
      tape_position        |-> 0,
      current_state        |-> self.initial_state,
      mem_cache            |-> None,
      instant_descriptions |-> << create_instant_description(
                                    input, 0, self.initial_state, None) >>,
      step                 |-> 1,
      transition           |-> NoTransition,
      returned             |-> NoReturn,
      applied              |-> 0,
      halt                 |-> "none" ]

\* SimInit that gives the empty input a tape of one blank cell.
SimInit_MaterializesBlank(self, input) ==
    [ pc                   |-> "while",
      tape                 |-> IF input = <<>> THEN <<None>> ELSE input,
      tape_position        |-> 0,
      current_state        |-> self.initial_state,
      mem_cache            |-> None,
      instant_descriptions |-> << create_instant_description(
                                    input, 0, self.initial_state, None) >>,
      step                 |-> 0,
      transition           |-> NoTransition,
      returned             |-> NoReturn,
      applied              |-> 0,
      halt                 |-> "none" ]

\* SimInit that accepts at once when the initial state is the final state.
SimInit_AcceptsAtStart(self, input) ==
    LET ids == << create_instant_description(
                    input, 0, self.initial_state, None) >>
        accepts == self.initial_state = self.final_state
    IN  [ pc                   |-> IF accepts THEN "ready" ELSE "while",
          tape                 |-> input,
          tape_position        |-> 0,
          current_state        |-> self.initial_state,
          mem_cache            |-> None,
          instant_descriptions |-> ids,
          step                 |-> 0,
          transition           |-> NoTransition,
          returned             |-> IF accepts
                                   THEN [ trace |-> ids, accepted |-> TRUE ]
                                   ELSE NoReturn,
          applied              |-> 0,
          halt                 |-> IF accepts THEN "final" ELSE "none" ]

\* Lines 123-137: the locals after the initial snapshot.
SimInit(self, input) ==
    [ pc                   |-> "while",
      tape                 |-> input,
      tape_position        |-> 0,
      current_state        |-> self.initial_state,
      mem_cache            |-> None,
      instant_descriptions |-> << create_instant_description(
                                    input, 0, self.initial_state, None) >>,
      step                 |-> 0,
      transition           |-> NoTransition,
      returned             |-> NoReturn,
      applied              |-> 0,
      halt                 |-> "none" ]

\* ExtendTape that adds the blank cell at the right end in both cases.
ExtendTape_AlwaysAppends(cells, position) ==
    IF position < 0
    THEN [ tape |-> Append(cells, None), tape_position |-> 0 ]
    ELSE IF position >= Len(cells)
    THEN [ tape |-> Append(cells, None), tape_position |-> position ]
    ELSE [ tape |-> cells, tape_position |-> position ]

\* Lines 141-147: the tape and the head after the extension.
ExtendTape(cells, position) ==
    IF position < 0
    THEN [ tape |-> <<None>> \o cells, tape_position |-> 0 ]
    ELSE IF position >= Len(cells)
    THEN [ tape |-> Append(cells, None), tape_position |-> position ]
    ELSE [ tape |-> cells, tape_position |-> position ]

\* ReturnRejected with the verdict computed from the state the loop ended in.
ReturnRejected_StateTest(run, why) ==
    [ run EXCEPT !.pc = "ready",
                 !.returned = [ trace    |-> run.instant_descriptions,
                                accepted |-> (run.current_state = tm.final_state) ],
                 !.halt = why ]

\* Line 186: the return after the loop.
ReturnRejected(run, why) ==
    [ run EXCEPT !.pc = "ready",
                 !.returned = [ trace    |-> run.instant_descriptions,
                                accepted |-> FALSE ],
                 !.halt = why ]

\* WhileStep with the loop test step <= max_steps.
WhileStep_OffByOne(run) ==
    IF run.step <= max_steps
    THEN LET ext == ExtendTape(run.tape, run.tape_position)
         IN  [ run EXCEPT !.pc = "read",
                          !.tape = ext.tape,
                          !.tape_position = ext.tape_position ]
    ELSE ReturnRejected(run, "step_bound")

\* Lines 139-147: the loop test, then the extension of the tape.
WhileStep(run) ==
    IF run.step < max_steps
    THEN LET ext == ExtendTape(run.tape, run.tape_position)
         IN  [ run EXCEPT !.pc = "read",
                          !.tape = ext.tape,
                          !.tape_position = ext.tape_position ]
    ELSE ReturnRejected(run, "step_bound")

\* ApplyTransition with the two directions exchanged.
ApplyTransition_SwappedMoves(run, t) ==
    [ run EXCEPT
        !.current_state = t.final_state,
        !.mem_cache     = t.new_mem_cache_value,
        !.tape          = [ run.tape EXCEPT ![run.tape_position + 1] =
                              IF t.tape_output # None
                              THEN t.tape_output ELSE None ],
        !.tape_position = IF t.tape_displacement = "L"
                          THEN run.tape_position + 1
                          ELSE IF t.tape_displacement = "R"
                          THEN run.tape_position - 1
                          ELSE run.tape_position ]

\* ApplyTransition that moves the head two cells to the right for 'R'.
ApplyTransition_MovesTwo(run, t) ==
    [ run EXCEPT
        !.current_state = t.final_state,
        !.mem_cache     = t.new_mem_cache_value,
        !.tape          = [ run.tape EXCEPT ![run.tape_position + 1] =
                              IF t.tape_output # None
                              THEN t.tape_output ELSE None ],
        !.tape_position = IF t.tape_displacement = "L"
                          THEN run.tape_position - 1
                          ELSE IF t.tape_displacement = "R"
                          THEN run.tape_position + 2
                          ELSE run.tape_position ]

\* ApplyTransition that moves right for every displacement but 'L' and 'S'.
ApplyTransition_UnknownMovesRight(run, t) ==
    [ run EXCEPT
        !.current_state = t.final_state,
        !.mem_cache     = t.new_mem_cache_value,
        !.tape          = [ run.tape EXCEPT ![run.tape_position + 1] =
                              IF t.tape_output # None
                              THEN t.tape_output ELSE None ],
        !.tape_position = IF t.tape_displacement = "L"
                          THEN run.tape_position - 1
                          ELSE IF t.tape_displacement = "S"
                          THEN run.tape_position
                          ELSE run.tape_position + 1 ]

\* Lines 159-173: state, cache, tape and head after transition is applied.
ApplyTransition(run, t) ==
    [ run EXCEPT
        !.current_state = t.final_state,
        !.mem_cache     = t.new_mem_cache_value,
        !.tape          = [ run.tape EXCEPT ![run.tape_position + 1] =
                              IF t.tape_output # None
                              THEN t.tape_output ELSE None ],
        !.tape_position = IF t.tape_displacement = "L"
                          THEN run.tape_position - 1
                          ELSE IF t.tape_displacement = "R"
                          THEN run.tape_position + 1
                          ELSE run.tape_position ]

\* AfterTransition that counts the step before it tests for the final state
\* when the step is the last the limit allows.
AfterTransition_BoundFirst(self, run) ==
    LET id_str == create_instant_description(
                      run.tape, run.tape_position, run.current_state, run.mem_cache)
        ids    == Append(run.instant_descriptions, id_str)
    IN  IF run.current_state = self.final_state /\ run.step + 1 < max_steps
        THEN [ run EXCEPT !.instant_descriptions = ids,
                          !.pc = "ready",
                          !.returned = [ trace |-> ids, accepted |-> TRUE ],
                          !.halt = "final" ]
        ELSE [ run EXCEPT !.instant_descriptions = ids,
                          !.step = run.step + 1,
                          !.pc = "while" ]

\* Lines 176-183: the snapshot, the test for the final state, the count.
AfterTransition(self, run) ==
    LET id_str == create_instant_description(
                      run.tape, run.tape_position, run.current_state, run.mem_cache)
        ids    == Append(run.instant_descriptions, id_str)
    IN  IF run.current_state = self.final_state
        THEN [ run EXCEPT !.instant_descriptions = ids,
                          !.pc = "ready",
                          !.returned = [ trace |-> ids, accepted |-> TRUE ],
                          !.halt = "final" ]
        ELSE [ run EXCEPT !.instant_descriptions = ids,
                          !.step = run.step + 1,
                          !.pc = "while" ]

\* Lines 149-183: the rest of one iteration.  A subscript outside the list
\* raises IndexError.
BodyStep(self, run) ==
    IF run.tape_position < 0 \/ run.tape_position >= Len(run.tape)
    THEN [ run EXCEPT !.pc = "raised", !.halt = "IndexError" ]
    ELSE LET current_symbol == run.tape[run.tape_position + 1]
             t     == find_transition(
                                   self, run.current_state, run.mem_cache, current_symbol)
         IN  IF t = NoTransition
             THEN ReturnRejected([run EXCEPT !.transition = t], "no_transition")
             ELSE AfterTransition(self,
                      [ ApplyTransition(run, t) EXCEPT
                          !.transition = t,
                          !.applied = run.applied + 1 ])

\* The loop of lines 139-183 run to its end.
RECURSIVE RunLoop(_, _)
RunLoop(self, run) ==
    IF run.pc = "while" THEN RunLoop(self, WhileStep(run))
    ELSE IF run.pc = "read" THEN RunLoop(self, BodyStep(self, run))
    ELSE run

\* Lines 113-186: the value simulate returns.
simulate(self, input) == RunLoop(self, SimInit(self, input)).returned

\* The run record of the current state.
Run ==
    [ pc                   |-> pc,
      tape                 |-> tape,
      tape_position        |-> tape_position,
      current_state        |-> current_state,
      mem_cache            |-> mem_cache,
      instant_descriptions |-> instant_descriptions,
      step                 |-> step,
      transition           |-> transition,
      returned             |-> returned,
      applied              |-> applied,
      halt                 |-> halt ]

SetRun(run) ==
    /\ pc' = run.pc
    /\ tape' = run.tape
    /\ tape_position' = run.tape_position
    /\ current_state' = run.current_state
    /\ mem_cache' = run.mem_cache
    /\ instant_descriptions' = run.instant_descriptions
    /\ step' = run.step
    /\ transition' = run.transition
    /\ returned' = run.returned
    /\ applied' = run.applied
    /\ halt' = run.halt

\* No file is involved when a client hands the configuration to the class.
NoFile == [kind |-> "none"]

NoQuery == [none |-> TRUE]

Init ==
    /\ config \in Configs
    /\ tm = NoMachine
    /\ pc = "new"
    /\ input_string = <<>>
    /\ tape = <<>>
    /\ tape_position = 0
    /\ current_state = None
    /\ mem_cache = None
    /\ instant_descriptions = <<>>
    /\ step = 0
    /\ transition = NoTransition
    /\ returned = NoReturn
    /\ applied = 0
    /\ halt = "none"
    /\ earlier_other = FALSE
    /\ query = NoQuery
    /\ found = NoTransition
    /\ file = NoFile
    /\ main_pc = "library"
    /\ sim_index = 0
    /\ stdout = <<>>
    /\ exit_status = <<>>
    /\ uncaught = ""

(***************************************************************************)
(* The operations.                                                         *)
(***************************************************************************)
\* tm = TuringMachine(config)
Construct ==
    /\ pc = "new"
    /\ tm' = TuringMachine(config)
    /\ pc' = IF TuringMachine(config) = NoMachine THEN "config_error" ELSE "ready"
    /\ UNCHANGED << config, input_string, tape, tape_position, current_state,
                    mem_cache, instant_descriptions, step, transition, returned,
                    applied, halt, earlier_other, query, found, mainVars >>

\* tm.simulate(s) is called: lines 123-137.
SimulateCall ==
    /\ pc = "ready"
    /\ \E s \in Inputs :
          /\ input_string' = s
          /\ SetRun(SimInit(tm, s))
          /\ earlier_other' = (earlier_other \/ (returned # NoReturn /\ input_string # s))
    /\ UNCHANGED << config, tm, query, found, mainVars >>

\* The loop test, then the extension of the tape (lines 139-147) or, the
\* step limit reached, the return of line 186.
LoopTest ==
    /\ pc = "while"
    /\ SetRun(WhileStep(Run))
    /\ UNCHANGED << config, tm, input_string, earlier_other, query, found,
                    mainVars >>

\* The rest of the iteration: lines 149-183, and line 186 after a break.
LoopBody ==
    /\ pc = "read"
    /\ SetRun(BodyStep(tm, Run))
    /\ UNCHANGED << config, tm, input_string, earlier_other, query, found,
                    mainVars >>

\* tm.find_transition(state, mem_cache, tape_symbol) is called by a client.
QueryStates == States
QueryCaches == {None, "", "x"}
QuerySymbols == {None, "", "a", "b"}

FindCall ==
    /\ pc = "ready"
    /\ \E state \in QueryStates, cache \in QueryCaches, symbol \in QuerySymbols :
          /\ query' = [ state |-> state, mem_cache |-> cache, tape_symbol |-> symbol ]
          /\ found' = find_transition(tm, state, cache, symbol)
    /\ UNCHANGED << config, tm, input_string, runVars, earlier_other,
                    mainVars >>

Next ==
    \/ Construct
    \/ SimulateCall
    \/ LoopTest
    \/ LoopBody

Spec == Init /\ [][Next]_vars

FindNext ==
    \/ Construct
    \/ FindCall

FindSpec == Init /\ [][FindNext]_vars

(***************************************************************************)
(* Properties of simulate.                                                 *)
(***************************************************************************)
\* simulate has returned, and returned is the value of this call.
Returned == pc = "ready" /\ returned # NoReturn

\* A call of simulate is in progress.
Running == pc \in {"while", "read"}

\* The snapshot of the initial configuration of the current call.
InitialSnapshot ==
    create_instant_description(input_string, 0, tm.initial_state, None)

\* What is left of the step limit: it decreases at every step of a run.
Remaining == 2 * (max_steps - step) + (IF pc = "while" THEN 1 ELSE 0)

\* C1: for every machine definition and every input string, simulate
\* applies at most max_steps transitions and then returns, whether or not
\* the simulated machine would halt on its own: a run never raises, and
\* each of its steps either returns or uses up some of what is left of the
\* step limit, which is never exhausted while the run goes on.
C1_SimulateTerminates ==
    /\ [](/\ applied <= max_steps
          /\ step <= max_steps
          /\ pc # "raised"
          /\ Running => Remaining > 0)
    /\ [][Running => (Returned' \/ (Running' /\ Remaining' < Remaining))]_vars

\* A run of a machine that never stops was cut at the step limit.
C1_Witness ==
    /\ Returned
    /\ halt = "step_bound"
    /\ applied = max_steps
    /\ transition # NoTransition

\* C2: simulate returns accepted = TRUE iff the run ended because
\* current_state equalled final_state right after a transition was applied;
\* a run that ends because no transition applies, or because the step limit
\* was reached, returns accepted = FALSE as a value, and nothing is raised.
C2_AcceptedIffFinalReached ==
    /\ pc # "raised"
    /\ Returned =>
          /\ returned.accepted \in BOOLEAN
          /\ returned.accepted <=> (applied >= 1 /\ current_state = tm.final_state)
          /\ returned.accepted <=> (halt = "final")
          /\ halt \in {"final", "no_transition", "step_bound"}
          /\ (halt = "no_transition") <=> (transition = NoTransition)
          /\ (halt = "step_bound") =>
                (step = max_steps /\ current_state # tm.final_state)

\* A run was accepted after several transitions.
C2_Witness ==
    /\ Returned
    /\ returned.accepted
    /\ applied >= 2

\* C3: the trace has exactly one entry more than the number of transitions
\* applied: entry 0 is the snapshot of the initial configuration, and one
\* snapshot is appended per applied transition, none for a failed lookup.
C3_TraceLength ==
    /\ Running =>
          /\ Len(instant_descriptions) = applied + 1
          /\ instant_descriptions[1] = InitialSnapshot
    /\ Returned =>
          /\ returned.trace = instant_descriptions
          /\ Len(returned.trace) = applied + 1
          /\ returned.trace[1] = InitialSnapshot

\* A run applied transitions and then ended with a failed lookup.
C3_Witness ==
    /\ Returned
    /\ halt = "no_transition"
    /\ applied >= 2

\* C4: a run in which a transition was applicable at every step and the
\* final state was never entered ends after exactly max_steps applied
\* transitions, with accepted = FALSE and a trace of max_steps + 1 entries.
C4_CycleHaltsAtBound ==
    (Returned /\ transition # NoTransition /\ current_state # tm.final_state) =>
        /\ applied = max_steps
        /\ returned.accepted = FALSE
        /\ Len(returned.trace) = max_steps + 1

\* The machine repeated one configuration until the step limit.
C4_Witness ==
    /\ Returned
    /\ transition # NoTransition
    /\ current_state # tm.final_state
    /\ \A i \in 1..Len(returned.trace) : returned.trace[i] = returned.trace[1]

\* Some entry of the table is declared for the initial configuration of the
\* current input: the initial state, a blank cache, the first input symbol.
InitialRuleDeclared ==
    \E i \in 1..Len(tm.transitions) :
        /\ tm.transitions[i].initial_state = tm.initial_state
        /\ tm.transitions[i].mem_cache_value = None
        /\ tm.transitions[i].tape_input = input_string[1]

\* C5: if no transition matches the initial configuration of a non-empty
\* input, simulate returns the initial snapshot alone and accepted = FALSE.
C5_NoInitialTransition ==
    (Returned /\ input_string # <<>> /\ ~InitialRuleDeclared) =>
        returned = [ trace |-> <<InitialSnapshot>>, accepted |-> FALSE ]

\* A machine with a non-empty table stopped on the first symbol of its input.
C5_Witness ==
    /\ Returned
    /\ input_string # <<>>
    /\ ~InitialRuleDeclared
    /\ Len(tm.transitions) >= 1
    /\ Len(returned.trace) = 1

(***************************************************************************)
(* Properties of find_transition.                                          *)
(***************************************************************************)
\* The one blank value None and '' denote.
Blank(v) == IF v = None \/ v = "" THEN None ELSE v

\* Entry t matches the query under equality normalized for blank on both
\* sides.
MatchesNormalized(t, q) ==
    /\ t.initial_state = q.state
    /\ Blank(t.mem_cache_value) = Blank(q.mem_cache)
    /\ Blank(t.tape_input) = Blank(q.tape_symbol)

\* The entries of the table that match the query.
MatchingEntries(q) ==
    { i \in 1..Len(tm.transitions) : MatchesNormalized(tm.transitions[i], q) }

\* find_transition has been called with the arguments in query.
Queried == pc = "ready" /\ query # NoQuery

\* C6: find_transition(state, cache, symbol) matches a transition iff
\* from_state equals state, cache_in equals cache and tape_in equals symbol,
\* None and '' denoting the same blank in the rule and in the arguments.
C6_MatchesBlankNormalized ==
    Queried =>
        /\ (found # NoTransition) <=> (MatchingEntries(query) # {})
        /\ (found # NoTransition) => MatchesNormalized(found, query)

\* C7: when several entries match the same (state, cache, symbol),
\* find_transition returns the first in declaration order; it returns
\* not-found only when no entry matches; the table is not modified.
C7_FirstMatchInOrder ==
    Queried =>
        /\ tm = TuringMachine(config)
        /\ IF MatchingEntries(query) = {}
           THEN found = NoTransition
           ELSE \E i \in MatchingEntries(query) :
                   /\ \A j \in MatchingEntries(query) : i <= j
                   /\ found = tm.transitions[i]

\* The same, for the queries whose cache and symbol are not ''.  (Kept to
\* show what C7 rests on; it is the order of the scan.)
FirstMatchInOrder_NormalizedQuery ==
    (Queried /\ query.mem_cache # "" /\ query.tape_symbol # "") =>
        C7_FirstMatchInOrder

(***************************************************************************)
(* Properties of construction and of the machine definition.               *)
(***************************************************************************)
BlankChoices(v) == IF v = None \/ v = "" THEN {None, ""} ELSE {v}

\* The delta entries equal to item but for the encoding of blank operands.
ItemVariants(item) ==
    { [ params |-> [ initial_state   |-> item.params.initial_state,
                     mem_cache_value |-> ci,
                     tape_input      |-> ti ],
        output |-> [ final_state       |-> item.output.final_state,
                     mem_cache_value   |-> co,
                     tape_output       |-> to,
                     tape_displacement |-> item.output.tape_displacement ] ] :
        ci \in BlankChoices(item.params.mem_cache_value),
        ti \in BlankChoices(item.params.tape_input),
        co \in BlankChoices(item.output.mem_cache_value),
        to \in BlankChoices(item.output.tape_output) }

RECURSIVE DeltaVariants(_)
DeltaVariants(delta) ==
    IF Len(delta) = 0 THEN { <<>> }
    ELSE { <<h>> \o t : h \in ItemVariants(delta[1]),
                        t \in DeltaVariants(SubSeq(delta, 2, Len(delta))) }

\* The configurations equal to cfg but for the encoding, null or '', of
\* some blank operands.
Variants(cfg) == { [ cfg EXCEPT !.delta = d ] : d \in DeltaVariants(cfg.delta) }

\* item with every blank operand encoded as e.
ReencodeItem(item, e) ==
    [ params |-> [ initial_state   |-> item.params.initial_state,
                   mem_cache_value |-> Enc(Blank(item.params.mem_cache_value), e),
                   tape_input      |-> Enc(Blank(item.params.tape_input), e) ],
      output |-> [ final_state       |-> item.output.final_state,
                   mem_cache_value   |-> Enc(Blank(item.output.mem_cache_value), e),
                   tape_output       |-> Enc(Blank(item.output.tape_output), e),
                   tape_displacement |-> item.output.tape_displacement ] ]

\* The variants of cfg with the blank operands of all entries, or of one
\* entry, encoded the same way.
UniformVariants(cfg) ==
    { [ cfg EXCEPT !.delta = [ i \in 1..Len(cfg.delta) |->
                                 ReencodeItem(cfg.delta[i], e) ] ] :
        e \in BlankEncodings }
    \cup
    { [ cfg EXCEPT !.delta[k] = ReencodeItem(cfg.delta[k], e) ] :
        k \in 1..Len(cfg.delta), e \in BlankEncodings }

\* The machine has just been constructed.
JustBuilt == pc = "ready" /\ returned = NoReturn /\ query = NoQuery

\* C8: machine definitions built from configurations that differ only in
\* the encoding of blank operands (null or '') give the same trace and the
\* same verdict for every input: every such configuration builds the same
\* machine definition, and a run of the machine built from one returns what
\* the machine built from another returns.
C8_BlankEncodingIrrelevant ==
    /\ JustBuilt =>
          \A cfg \in Variants(config) : TuringMachine(cfg) = tm
    /\ (Returned /\ ~earlier_other) =>
          \A cfg \in UniformVariants(config) :
              simulate(TuringMachine(cfg), input_string) = returned

\* A run that read, wrote and kept blanks, for a configuration that has
\* other encodings.
C8_Witness ==
    /\ Returned
    /\ ~earlier_other
    /\ applied >= 2
    /\ transition.tape_input = None
    /\ transition.tape_output = None
    /\ transition.mem_cache_value = None
    /\ Cardinality(Variants(config)) >= 16
    /\ Cardinality(UniformVariants(config)) >= 4

\* The machine of the example: states [q0, q1], initial q0, final q1, the
\* single transition (q0, blank, "a") -> (q1, blank, "a", R).
IsExampleMachine ==
    /\ tm # NoMachine
    /\ tm.states = <<"q0", "q1">>
    /\ tm.initial_state = "q0"
    /\ tm.final_state = "q1"
    /\ tm.transitions = << [ initial_state       |-> "q0",
                             mem_cache_value     |-> None,
                             tape_input          |-> "a",
                             final_state         |-> "q1",
                             new_mem_cache_value |-> None,
                             tape_output         |-> "a",
                             tape_displacement   |-> "R" ] >>

\* C9: for the example machine, simulate("a") returns the trace
\* ["[q0]a", "a[q1]B"] and accepted = TRUE.
C9_ExampleRun ==
    (IsExampleMachine /\ Returned /\ input_string = <<"a">>) =>
        returned = [ trace |-> << "[q0]a", "a[q1]B" >>, accepted |-> TRUE ]

\* The example machine has run on "a".
C9_Witness ==
    /\ IsExampleMachine
    /\ Returned
    /\ input_string = <<"a">>
    /\ applied = 1

\* C10: what simulate returns depends on the configuration and the input
\* alone: after any earlier calls, it returns what a machine definition
\* freshly built from the same configuration returns for that input, and
\* it leaves the machine definition as construction made it.
C10_ResultDependsOnConfigAndInput ==
    /\ pc \notin {"new", "config_error"} => tm = TuringMachine(config)
    /\ Returned => returned = simulate(TuringMachine(config), input_string)

\* A run that follows a run on another input which left the cache set.
C10_Witness ==
    /\ Returned
    /\ earlier_other
    /\ applied >= 1

(***************************************************************************)
(* Properties of construction from malformed configurations.               *)
(***************************************************************************)
\* A delta entry without one of the fields every transition must have.
LacksRequiredField(item) ==
    \/ "initial_state" \notin DOMAIN item.params
    \/ "tape_input" \notin DOMAIN item.params
    \/ "final_state" \notin DOMAIN item.output
    \/ "tape_displacement" \notin DOMAIN item.output

ConfigIsMalformed ==
    \E i \in 1..Len(config.delta) : LacksRequiredField(config.delta[i])

\* C11: constructing a machine definition from a configuration in which
\* some transition lacks a required field fails, leaves no machine
\* definition, and nothing is ever simulated or looked up on it.
C11_MalformedConfigRejected ==
    ConfigIsMalformed =>
        /\ pc \in {"new", "config_error"}
        /\ tm = NoMachine
        /\ returned = NoReturn
        /\ instant_descriptions = <<>>
        /\ found = NoTransition /\ query = NoQuery

\* Construction failed on the second entry, after a first entry that is
\* well formed.
C11_Witness ==
    /\ pc = "config_error"
    /\ Len(config.delta) = 2
    /\ ~LacksRequiredField(config.delta[1])
    /\ LacksRequiredField(config.delta[2])

(***************************************************************************)
(* Properties of one step of the loop.                                     *)
(***************************************************************************)
\* This step applies a transition: lines 158-173 are executed.
TransitionApplied == pc = "read" /\ applied' = applied + 1

\* The cells of cells other than the one at Python index position.
OtherCellsKept(before, after, position) ==
    /\ Len(after) = Len(before)
    /\ \A i \in 1..Len(before) : i # position + 1 => after[i] = before[i]

\* C12: applying a matched transition writes tape_out (blank when tape_out
\* is blank) to the cell under the head as it was before the move, sets
\* current_state to to_state and cache to cache_out, then moves the head by
\* -1 for L, +1 for R and 0 for S; every other cell keeps its content and
\* its place.
C12_TransitionEffect ==
    [][TransitionApplied =>
        /\ transition' = find_transition(
                             tm, current_state, mem_cache, tape[tape_position + 1])
        /\ tape'[tape_position + 1] = transition'.tape_output
        /\ OtherCellsKept(tape, tape', tape_position)
        /\ current_state' = transition'.final_state
        /\ mem_cache' = transition'.new_mem_cache_value
        /\ transition'.tape_displacement = "L" => tape_position' = tape_position - 1
        /\ transition'.tape_displacement = "R" => tape_position' = tape_position + 1
        /\ transition'.tape_displacement = "S" => tape_position' = tape_position
      ]_vars

\* A transition that writes blank and moves left was applied to a tape of
\* several cells, one of them not blank.
C12_Witness ==
    /\ applied >= 1
    /\ transition # NoTransition
    /\ transition.tape_displacement = "L"
    /\ transition.tape_output = None
    /\ Len(tape) >= 2
    /\ \E i \in 1..Len(tape) : tape[i] = "b"

\* C13: during a run the tape never shrinks: a step leaves its length
\* unchanged or adds one blank cell at the left or the right end; the cells
\* there were keep their order, and the head is then on the new blank cell.
C13_TapeGrowsMonotonically ==
    [][Running =>
        \/ Len(tape') = Len(tape)
        \/ /\ pc = "while"
           /\ tape_position < 0
           /\ tape' = <<None>> \o tape
           /\ tape_position' = 0
           /\ tape'[tape_position' + 1] = None
        \/ /\ pc = "while"
           /\ tape_position >= Len(tape)
           /\ tape' = tape \o <<None>>
           /\ tape_position' = Len(tape)
           /\ tape'[tape_position' + 1] = None
      ]_vars

\* The first transition moved the head left of a two-cell tape, and the
\* tape has been extended at its left end.
C13_Witness ==
    /\ pc = "read"
    /\ applied = 1
    /\ transition.tape_displacement = "L"
    /\ Len(input_string) = 2
    /\ Len(tape) = 3
    /\ tape_position = 0
    /\ tape[3] = "b"

\* The marker of an instantaneous description.
Marker(state, cache) ==
    IF cache = None
    THEN "[" \o state \o "]"
    ELSE "[" \o state \o "," \o cache \o "]"

\* The cells as they are shown: a blank cell as "B".
Shown(cells) ==
    [ i \in 1..Len(cells) |-> IF cells[i] = None THEN "B" ELSE cells[i] ]

RECURSIVE Concat(_)
Concat(parts) ==
    IF Len(parts) = 0 THEN "" ELSE parts[1] \o Concat(Tail(parts))

\* The rendering the three cases of the head call for.
ExpectedRendering(cells, position, state, cache) ==
    IF position < 0
    THEN Concat(<<Marker(state, cache), "B">> \o Shown(cells))
    ELSE IF position >= Len(cells)
    THEN Concat(Shown(cells) \o <<Marker(state, cache), "B">>)
    ELSE Concat(SubSeq(Shown(cells), 1, position)
                \o <<Marker(state, cache)>>
                \o SubSeq(Shown(cells), position + 1, Len(cells)))

\* The last snapshot was taken of the configuration the variables hold.
SnapshotIsCurrent ==
    \/ pc = "while"
    \/ Returned /\ halt \in {"final", "step_bound"}

\* C14: the renderer returns left cells + marker + cell under the head +
\* right cells for a head inside the tape, marker + "B" + tape for a head
\* left of it and tape + marker + "B" for a head right of it; the marker is
\* [state] for a blank cache and [state,cache] otherwise, and a blank cell
\* is shown as "B".  The renderer only reads the tape it is given.
C14_RenderedDescription ==
    SnapshotIsCurrent =>
        /\ instant_descriptions # <<>>
        /\ instant_descriptions[Len(instant_descriptions)]
               = ExpectedRendering(tape, tape_position,
                                   current_state, mem_cache)
        /\ create_instant_description(tape, tape_position,
                                      current_state, mem_cache)
               = ExpectedRendering(tape, tape_position,
                                   current_state, mem_cache)

\* A snapshot was taken with the head left of a two-cell tape that holds a
\* blank cell, and with a value in the cache.
C14_Witness ==
    /\ pc = "while"
    /\ applied >= 1
    /\ tape_position < 0
    /\ mem_cache # None
    /\ Len(tape) >= 2
    /\ tape[1] = None
    /\ instant_descriptions[Len(instant_descriptions)] = "[q0,x]BBb"

\* The entries of the configuration declared for the initial state, a blank
\* cache and a blank symbol, in either encoding of blank.
BlankStartRules ==
    { i \in 1..Len(config.delta) :
        /\ config.delta[i].params.initial_state = tm.initial_state
        /\ Blank(Get(config.delta[i].params, "mem_cache_value")) = None
        /\ Blank(config.delta[i].params.tape_input) = None }

MinOf(S) == CHOOSE i \in S : \A j \in S : i <= j

\* C15: for the empty input the tape starts with no cells and the initial
\* trace entry is "[initial_state]B"; the first step reads blank from a cell
\* materialized at position 0; a rule for (initial_state, blank cache, blank
\* symbol) is applied on the first step, and without such a rule the run is
\* rejected with a one-entry trace.
C15_EmptyInput ==
    ((Running \/ Returned) /\ input_string = <<>>) =>
        /\ instant_descriptions[1] = "[" \o tm.initial_state \o "]B"
        /\ (pc = "while" /\ applied = 0) =>
               tape = <<>> /\ tape_position = 0
        /\ (pc = "read" /\ applied = 0) =>
               /\ tape = <<None>>
               /\ tape_position = 0
               /\ tape[tape_position + 1] = None
        /\ (applied >= 1) => BlankStartRules # {}
        /\ (applied = 1 /\ transition # NoTransition) =>
               transition = tm.transitions[MinOf(BlankStartRules)]
        /\ Returned =>
               IF BlankStartRules # {}
               THEN applied >= 1 /\ Len(returned.trace) >= 2
               ELSE returned = [ trace    |-> << "[" \o tm.initial_state
                                                     \o "]B" >>,
                                 accepted |-> FALSE ]

\* A run on the empty input has applied a rule declared for blank, written
\* '' in the configuration.
C15_Witness ==
    /\ Returned
    /\ input_string = <<>>
    /\ applied >= 1
    /\ \E i \in BlankStartRules : config.delta[i].params.tape_input = ""

\* A run on the empty input was rejected with the initial snapshot alone by
\* a machine with a non-empty table.
C15_Witness_Rejected ==
    /\ Returned
    /\ input_string = <<>>
    /\ BlankStartRules = {}
    /\ Len(config.delta) >= 1
    /\ returned.trace = <<"[q0]B">>

\* C17: in every state of a run the head satisfies -1 <= head <= len(tape)
\* when a snapshot is taken and 0 <= head < len(tape) at every read and
\* write of the tape, so one blank cell per iteration is enough and no
\* access is out of range.
C17_HeadBounds ==
    /\ pc # "raised"
    /\ halt # "IndexError"
    /\ SnapshotIsCurrent =>
           /\ -1 <= tape_position
           /\ tape_position <= Len(tape)
    /\ (pc = "read") =>
           /\ 0 <= tape_position
           /\ tape_position < Len(tape)

\* A snapshot was taken with the head one past the right end of a tape of
\* two cells or more.
C17_Witness ==
    /\ pc = "while"
    /\ applied >= 2
    /\ tape_position = Len(tape)
    /\ Len(tape) >= 2

\* A snapshot was taken with the head one before the left end of the tape.
C17_Witness_Left ==
    /\ pc = "while"
    /\ applied >= 1
    /\ tape_position = -1

\* No transition is declared for the initial configuration of the current
\* input.
NoInitialTransition ==
    find_transition(tm, tm.initial_state, None,
                    IF input_string = <<>> THEN None ELSE input_string[1])
        = NoTransition

\* C18: acceptance requires at least one applied transition.  When the
\* initial state is the final state simulate does not accept at step 0; if
\* no transition applies to the initial configuration it returns the
\* one-entry trace with accepted = FALSE; every accepted run has a trace of
\* at least two entries.
C18_AcceptanceNeedsTransition ==
    /\ (Running /\ applied = 0) => returned = NoReturn
    /\ Returned =>
          /\ returned.accepted =>
                 /\ applied >= 1
                 /\ Len(returned.trace) >= 2
          /\ (tm.initial_state = tm.final_state /\ NoInitialTransition) =>
                 returned = [ trace    |-> <<InitialSnapshot>>,
                              accepted |-> FALSE ]

\* A machine whose initial state is its final state, with a non-empty
\* table, rejected an input without applying a transition.
C18_Witness ==
    /\ Returned
    /\ tm.initial_state = tm.final_state
    /\ Len(tm.transitions) >= 1
    /\ applied = 0
    /\ ~returned.accepted
    /\ Len(returned.trace) = 1

\* C19: a run that enters the final state on exactly its max_steps-th
\* applied transition is accepted with a trace of max_steps + 1 entries;
\* only a run whose first max_steps transitions all end in non-final states
\* is rejected by the limit.
C19_StepBoundBoundary ==
    /\ (Running /\ applied >= 1) => current_state # tm.final_state
    /\ Returned =>
          /\ (applied = max_steps /\ current_state = tm.final_state) =>
                 /\ returned.accepted
                 /\ halt = "final"
                 /\ Len(returned.trace) = max_steps + 1
          /\ (halt = "step_bound") =>
                 /\ ~returned.accepted
                 /\ applied = max_steps
                 /\ current_state # tm.final_state
                 /\ Len(returned.trace) = max_steps + 1

\* A run was accepted on the last transition the limit allows.
C19_Witness ==
    /\ Returned
    /\ returned.accepted
    /\ applied = max_steps
    /\ step = max_steps - 1
    /\ Len(returned.trace) = max_steps + 1

\* A configuration is constructed.
Constructing == pc = "new" /\ pc' # "new"

\* C20: construction accepts any tape_displacement without validation, and
\* in simulate a transition whose displacement is neither 'L' nor 'R'
\* leaves the head where it is, exactly like 'S', while it still writes the
\* tape and updates state and cache.
C20_UnknownDisplacementStays ==
    [][ /\ (Constructing /\ ~ConfigIsMalformed) =>
              /\ pc' = "ready"
              /\ Len(tm'.transitions) = Len(config.delta)
              /\ \A i \in 1..Len(config.delta) :
                     tm'.transitions[i].tape_displacement
                         = config.delta[i].output.tape_displacement
        /\ (TransitionApplied
              /\ transition'.tape_displacement \notin {"L", "R"}) =>
              /\ tape_position' = tape_position
              /\ tape'[tape_position + 1] = transition'.tape_output
              /\ current_state' = transition'.final_state
              /\ mem_cache' = transition'.new_mem_cache_value
              /\ LET stay == ApplyTransition(
                                 Run, [ transition' EXCEPT
                                          !.tape_displacement = "S" ])
                 IN  /\ tape_position' = stay.tape_position
                     /\ tape' = stay.tape
                     /\ current_state' = stay.current_state
                     /\ mem_cache' = stay.mem_cache
      ]_vars

\* A transition with the displacement 'X' has been applied: it wrote the
\* tape and set state and cache.
C20_Witness ==
    /\ applied >= 1
    /\ transition # NoTransition
    /\ transition.tape_displacement = "X"
    /\ tape_position = 0
    /\ tape[1] = "a"
    /\ input_string[1] = "b"
    /\ current_state = "q1"
    /\ mem_cache = "x"

(***************************************************************************)
(* yaml_parser.parse_yaml_file and main.                                   *)
(***************************************************************************)
\* args.yaml_file
MainPath == "mt.yaml"

\* yaml.safe_load of an empty file gives None.
NoDocument == [python_none |-> TRUE]

\* config before main has assigned it.
NoConfig == [none |-> TRUE]

TopLevelKeys == {"q_states", "alphabet", "tape_alphabet", "delta"}

\* The dictionary d without the keys K.
Without(d, K) == [ k \in (DOMAIN d) \ K |-> d[k] ]

\* The sets of keys the documents lack.
DroppedKeys ==
    { {} } \cup { {k} : k \in TopLevelKeys }
           \cup { {"q_states", "delta"}, TopLevelKeys }

\* The values of the optional key simulation_strings.
SimulationLists == { <<>>, << <<"a">> >>, << <<>>, <<"a", "b">> >> }

WithStrings(cfg, strings) ==
    [ q_states           |-> cfg.q_states,
      alphabet           |-> cfg.alphabet,
      tape_alphabet      |-> cfg.tape_alphabet,
      delta              |-> cfg.delta,
      simulation_strings |-> strings ]

MainConfigs ==
    LET base == { MakeConfig(delta, final) :
                    delta \in SeqsUpTo(DeltaItems(None), 1),
                    final \in States }
    IN  base \cup { WithStrings(cfg, strings) :
                      cfg \in base, strings \in SimulationLists }

Documents ==
    {NoDocument} \cup { Without(cfg, K) : cfg \in MainConfigs,
                                           K \in DroppedKeys }

\* What the path can hold: nothing, text that is not YAML, or a document.
Files ==
    { [ kind |-> "missing", path |-> MainPath ],
      [ kind |-> "invalid", path |-> MainPath ] }
    \cup { [ kind |-> "document", path |-> MainPath, document |-> d ] :
             d \in Documents }

\* An exception, and a returned value.
Raise(type, message) == [ raised |-> type, message |-> message ]
Return(value) == [ value |-> value ]

\* yaml_parser.py lines 19-32.  The texts of the errors open and
\* yaml.safe_load raise come from outside the repository; one text stands
\* for each.
parse_yaml_file(f) ==
    IF f.kind = "missing"
    THEN Raise("FileNotFoundError", "No such file or directory")
    ELSE IF f.kind = "invalid"
    THEN Raise("YAMLError", "could not parse")
    ELSE IF f.document = NoDocument
    THEN Raise("TypeError", "argument of type 'NoneType' is not iterable")
    ELSE IF "q_states" \notin DOMAIN f.document
    THEN Raise("ValueError", "El archivo YAML debe contener 'q_states'")
    ELSE IF "alphabet" \notin DOMAIN f.document
    THEN Raise("ValueError", "El archivo YAML debe contener 'alphabet'")
    ELSE IF "tape_alphabet" \notin DOMAIN f.document
    THEN Raise("ValueError", "El archivo YAML debe contener 'tape_alphabet'")
    ELSE IF "delta" \notin DOMAIN f.document
    THEN Raise("ValueError", "El archivo YAML debe contener 'delta'")
    ELSE Return(f.document)

\* The key whose subscripted read fails first in turing_machine.py
\* lines 44-72.
FirstMissingKey(delta_item) ==
    IF "params" \notin DOMAIN delta_item THEN "params"
    ELSE IF "output" \notin DOMAIN delta_item THEN "output"
    ELSE IF "tape_input" \notin DOMAIN delta_item.params THEN "tape_input"
    ELSE IF "initial_state" \notin DOMAIN delta_item.params
    THEN "initial_state"
    ELSE IF "final_state" \notin DOMAIN delta_item.output THEN "final_state"
    ELSE "tape_displacement"

\* The KeyError __init__ raises for a configuration it cannot read.
InitKeyError(cfg) ==
    LET bad   == { i \in 1..Len(cfg.delta) : ~HasRequiredKeys(cfg.delta[i]) }
        first == CHOOSE i \in bad : \A j \in bad : i <= j
    IN  Raise("KeyError", "'" \o FirstMissingKey(cfg.delta[first]) \o "'")

\* The names bound in main's module: main.py lines 5-8.
MainImports == {"sys", "argparse", "TuringMachine", "parse_yaml_file"}

\* main.py lines 62-75: the except clauses are tried in order, and the
\* expression of a clause is evaluated when the clause is tried.  A name
\* that is not bound raises NameError there, which nothing catches: the
\* interpreter ends with status 1.
ExceptChain(exc, path) ==
    IF exc.raised = "FileNotFoundError"
    THEN [ printed     |-> << "Error: No se encontró el archivo '"
                               \o path \o "'" >>,
           exit_status |-> <<1>>,
           uncaught    |-> "" ]
    ELSE IF "yaml" \notin MainImports
    THEN [ printed     |-> <<>>,
           exit_status |-> <<1>>,
           uncaught    |-> "NameError" ]
    ELSE IF exc.raised = "YAMLError"
    THEN [ printed     |-> << "Error al parsear el archivo YAML: "
                               \o exc.message >>,
           exit_status |-> <<1>>,
           uncaught    |-> "" ]
    ELSE IF exc.raised = "ValueError"
    THEN [ printed     |-> << "Error en la configuración: "
                               \o exc.message >>,
           exit_status |-> <<1>>,
           uncaught    |-> "" ]
    ELSE [ printed     |-> << "Error inesperado: " \o exc.message >>,
           exit_status |-> <<1>>,
           uncaught    |-> "" ]

\* The process ends in the except chain.
ExitWith(exc, printed) ==
    LET handled == ExceptChain(exc, file.path)
    IN  /\ stdout' = stdout \o printed \o handled.printed
        /\ exit_status' = handled.exit_status
        /\ uncaught' = handled.uncaught
        /\ main_pc' = "exited"

\* str(n) of a natural number.
RECURSIVE IntStr(_)
IntStr(n) ==
    LET digits == <<"0", "1", "2", "3", "4", "5", "6", "7", "8", "9">>
    IN  IF n < 10 THEN digits[n + 1]
        ELSE IntStr(n \div 10) \o digits[(n % 10) + 1]

\* s * n
RECURSIVE Repeat(_, _)
Repeat(s, n) == IF n = 0 THEN "" ELSE s \o Repeat(s, n - 1)

\* sep.join(parts)
RECURSIVE Join(_, _)
Join(sep, parts) ==
    IF Len(parts) = 0 THEN ""
    ELSE IF Len(parts) = 1 THEN parts[1]
    ELSE parts[1] \o sep \o Join(sep, Tail(parts))

\* The text an f-string gives for a list of strings.
ListStr(list) ==
    "[" \o Join(", ", [ i \in 1..Len(list) |-> "'" \o list[i] \o "'" ])
        \o "]"

\* main.py lines 40 and 60.
RuleLine == "\n" \o Repeat("=", 80) \o "\n"

\* main.py lines 32-40.
MachineLines(self) ==
    << "MT creada exitosamente",
       "Estados: " \o ListStr(self.states),
       "Estado inicial: " \o self.initial_state,
       "Estado final: " \o self.final_state,
       "Alfabeto: " \o ListStr(self.alphabet),
       "Alfabeto de cinta: " \o ListStr(self.tape_alphabet),
       "Transiciones: " \o IntStr(Len(self.transitions)),
       "Cadenas a simular: " \o IntStr(Len(self.simulation_strings)),
       RuleLine >>

\* main.py lines 44-45.
SimulationHeader(i, input) ==
    << "Simulación " \o IntStr(i) \o ": Cadena de entrada: '"
           \o Join("", input) \o "'",
       Repeat("-", 80) >>

\* main.py lines 50-60.
SimulationLines(input, result) ==
    [ k \in 1..Len(result.trace) |->
        "Paso " \o IntStr(k - 1) \o ": " \o result.trace[k] ]
    \o << Repeat("-", 80),
          "RESULTADO: La cadena '" \o Join("", input) \o "' fue "
              \o (IF result.accepted THEN "ACEPTADA" ELSE "RECHAZADA"),
          RuleLine >>

MainInit ==
    /\ file \in Files
    /\ main_pc = "start"
    /\ sim_index = 0
    /\ stdout = <<>>
    /\ exit_status = <<>>
    /\ uncaught = ""
    /\ config = NoConfig
    /\ tm = NoMachine
    /\ pc = "new"
    /\ input_string = <<>>
    /\ tape = <<>>
    /\ tape_position = 0
    /\ current_state = None
    /\ mem_cache = None
    /\ instant_descriptions = <<>>
    /\ step = 0
    /\ transition = NoTransition
    /\ returned = NoReturn
    /\ applied = 0
    /\ halt = "none"
    /\ earlier_other = FALSE
    /\ query = NoQuery
    /\ found = NoTransition

\* main.py lines 27-28.
MainLoad ==
    /\ main_pc = "start"
    /\ LET printed == << "Cargando configuración desde: " \o file.path >>
           loaded  == parse_yaml_file(file)
       IN  IF "raised" \in DOMAIN loaded
           THEN /\ ExitWith(loaded, printed)
                /\ UNCHANGED config
           ELSE /\ config' = loaded.value
                /\ stdout' = stdout \o printed
                /\ main_pc' = "loaded"
                /\ UNCHANGED << exit_status, uncaught >>
    /\ UNCHANGED << tm, input_string, runVars, earlier_other, query, found,
                    file, sim_index >>

\* main.py lines 31-40.
MainConstruct ==
    /\ main_pc = "loaded"
    /\ tm' = TuringMachine(config)
    /\ IF TuringMachine(config) = NoMachine
       THEN /\ ExitWith(InitKeyError(config), <<>>)
            /\ pc' = "config_error"
            /\ UNCHANGED sim_index
       ELSE /\ stdout' = stdout \o MachineLines(TuringMachine(config))
            /\ main_pc' = "simulating"
            /\ pc' = "ready"
            /\ sim_index' = 1
            /\ UNCHANGED << exit_status, uncaught >>
    /\ UNCHANGED << config, input_string, tape, tape_position, current_state,
                    mem_cache, instant_descriptions, step, transition,
                    returned, applied, halt, earlier_other, query, found,
                    file >>

\* main.py lines 43-60: one iteration of the loop over the strings.
MainSimulate ==
    /\ main_pc = "simulating"
    /\ sim_index <= Len(tm.simulation_strings)
    /\ LET s   == tm.simulation_strings[sim_index]
           run == RunLoop(tm, SimInit(tm, s))
       IN  /\ input_string' = s
           /\ SetRun(run)
           /\ earlier_other' = (earlier_other
                                 \/ (returned # NoReturn /\ input_string # s))
           /\ IF run.pc = "raised"
              THEN /\ ExitWith(Raise(run.halt, "list index out of range"),
                               SimulationHeader(sim_index, s))
                   /\ UNCHANGED sim_index
              ELSE /\ stdout' = stdout \o SimulationHeader(sim_index, s)
                                       \o SimulationLines(s, run.returned)
                   /\ sim_index' = sim_index + 1
                   /\ UNCHANGED << main_pc, exit_status, uncaught >>
    /\ UNCHANGED << config, tm, query, found, file >>

\* main returns after the last string: the interpreter ends with status 0.
MainReturn ==
    /\ main_pc = "simulating"
    /\ sim_index > Len(tm.simulation_strings)
    /\ main_pc' = "exited"
    /\ exit_status' = <<0>>
    /\ UNCHANGED << config, tm, input_string, runVars, earlier_other, query,
                    found, file, sim_index, stdout, uncaught >>

MainNext ==
    \/ MainLoad
    \/ MainConstruct
    \/ MainSimulate
    \/ MainReturn

MainSpec == MainInit /\ [][MainNext]_vars

\* The document the file holds lacks a required top-level key.
LacksTopLevelKey ==
    /\ file.kind = "document"
    /\ file.document # NoDocument
    /\ \E k \in TopLevelKeys : k \notin DOMAIN file.document

\* The lines the configuration-error branch of main prints.
ConfigurationErrorLines ==
    { "Error en la configuración: El archivo YAML debe contener '"
          \o k \o "'" : k \in TopLevelKeys }

\* C16: when the loaded configuration lacks a required top-level key
\* (q_states, alphabet, tape_alphabet or delta), the loader rejects it
\* before any TuringMachine is constructed, and main reports it through its
\* configuration-error branch (message "Error en la configuración") and
\* exits with status 1.
C16_MissingKeyReported ==
    (LacksTopLevelKey /\ main_pc # "start") =>
        /\ main_pc = "exited"
        /\ config = NoConfig
        /\ tm = NoMachine
        /\ pc = "new"
        /\ \E i \in 1..Len(stdout) : stdout[i] \in ConfigurationErrorLines
        /\ exit_status = <<1>>

\* What the code does for such a document: the loader rejects it before
\* any TuringMachine is constructed and the process ends with status 1, by
\* an uncaught NameError and with no report of the configuration error.
MissingKeyUncaught ==
    (LacksTopLevelKey /\ main_pc # "start") =>
        /\ main_pc = "exited"
        /\ config = NoConfig
        /\ tm = NoMachine
        /\ pc = "new"
        /\ stdout = << "Cargando configuración desde: " \o file.path >>
        /\ uncaught = "NameError"
        /\ exit_status = <<1>>

=============================================================================
